---- MODULE Spec2Model ----
(***************************************************************************)
(* A model of src/g-maps.js: the Map facade over the Google Maps widget   *)
(* (marker list, click/zoom callback lists, widget reference) and the     *)
(* module-level jQuery deferred that publishes the Map constructor once   *)
(* the maps script has called back.                                       *)
(*                                                                         *)
(* JavaScript values are records [t |-> typeof, v |-> identity]; object   *)
(* references (widgets, markers) are indices into heaps, 0 being null.    *)
(***************************************************************************)
EXTENDS Integers, Sequences, FiniteSets, TLC

\* ---------------------------------------------------------------- bounds

\* Marker objects ever created by addMarkers (all facades together).
MaxMarkers == 3
\* Callbacks ever registered (all callback lists of all facades together).
MaxRegs == 3
\* Widgets ever constructed by init (all facades together).
MaxWidgets == 2
\* Widgets, markers and registrations together, where every operation is enabled.
MaxObjects == 3

\* ------------------------------------------------------ JavaScript values

JS(t, v) == [t |-> t, v |-> v]

typeof(x) == x.t

undefined == JS("undefined", 0)
null == JS("object", 0)
plainObject == JS("object", 1)
string7 == JS("string", 7)
number(n) == JS("number", n)

\* Two callbacks that only observe their argument.
f1 == JS("function", 1)
f2 == JS("function", 2)
\* function () { gmap1.registerMapClickEvent(f1); }: a callback that registers
\* a further callback on the click list of facade 1 each time it is invoked.
h == JS("function", 3)

TypeError == JS("object", 900)

\* The facade instance as a JavaScript value (`this`).
This(i) == JS("object", 100 + i)

\* The consumers of the module's promise.
Consumers == {"c1", "c2", "c3"}

\* Arguments the callers pass.
ZoomArgs == {number(4), number(7), undefined, string7}
CallbackArgs == {f1, f2, h, undefined, plainObject}
MarkerCallbackArgs == {f1, undefined}
ClickEvents == {JS("object", 41)}
Payloads == {JS("object", 41), JS("object", 42)}
ZoomLevels == {4, 7}
ArrayNames == {"mapClickCallbacks", "mapZoomCallbacks"}

\* coordsArray entries: {latLng: [1, 2], data: {a: 1}} and {latLng: [3, 4], data: {b: 2}}.
entryA == [latLng |-> <<1, 2>>, data |-> [a |-> 1]]
entryB == [latLng |-> <<3, 4>>, data |-> [b |-> 2]]
CoordsArrays == {<<>>, <<entryA>>, <<entryA, entryB>>}
LatLngArgs == {<<1, 2>>}

\* ------------------------------------------------------------------ state

VARIABLES
    facade,      \* facade[i]: the fields of Map instance i (map, markers, mapClickCallbacks, ...)
    widgets,     \* heap of google.maps.Map widgets: [owner, elem, zoom, center]
    markerObjs,  \* heap of google.maps.Marker objects: [position, icon, map, data, callback]
    sinceDelete, \* history: per facade, the entries passed to addMarkers since the last deleteMarkers
    last,        \* the most recent call or event: its arguments, its result, the callbacks it invoked
    google,      \* the global `google` when the maps script calls back ("pending" before)
    promise,     \* the $.Deferred: [state, value, doneList]
    subscribed,  \* history: the consumers that called $Gmaps.done(fn)
    received,    \* received[c]: the arguments of the calls of consumer c's done-callback, in order
    loadError    \* the exception the require callback threw ("none" if none)

vars == <<facade, widgets, markerObjs, sinceDelete, last, google, promise, subscribed, received, loadError>>

\* The facade instances constructed so far.
Instances == DOMAIN facade

facadeVars == <<facade, widgets, markerObjs, sinceDelete>>
loadVars == <<google, promise, subscribed, received, loadError>>

\* ------------------------------------------------------------ constructor

defaultOptions == [icon |-> "map-pin.png"]

\* mapOptions.zoom
DefaultZoom == 4

LatLng(lat, lng) == [lat |-> lat, lng |-> lng]

\* mapOptions.center, in micro-degrees
DefaultCenter == LatLng(47147354, 16158813)

\* function Map(elem, options); options.icon is "" when the caller gave none.
Map(elem, options) ==
    [ map |-> 0,
      markers |-> <<>>,
      mapClickCallbacks |-> <<>>,
      mapZoomCallbacks |-> <<>>,
      elem |-> elem,
      icon |-> IF options.icon # "" THEN options.icon ELSE defaultOptions.icon,
      mapOptions |-> [zoom |-> DefaultZoom, center |-> DefaultCenter] ]

\* The arguments of the two constructions.
CtorArgs(i) == IF i = 1 THEN [elem |-> "div1", options |-> [icon |-> ""]]
               ELSE [elem |-> "div2", options |-> [icon |-> "custom.png"]]

\* What every call records: only the fields the call uses differ from these.
NoCall ==
    [ op |-> "new", inst |-> 0, arg |-> undefined, entries |-> <<>>, name |-> "",
      target |-> 0, ret |-> [k |-> "return", v |-> undefined],
      calls |-> <<>>, clicks |-> <<>> ]

Returned(x) == [k |-> "return", v |-> x]
Thrown(x) == [k |-> "throw", v |-> x]

\* --------------------------------------------------------------- markers

\* new google.maps.Marker({position, icon, map, data}) followed by
\* assignMarkerEvent(marker, 'click', callback); the marker's data is the whole entry.
NewMarker(this, entry, callback) ==
    [ position |-> LatLng(entry.latLng[1], entry.latLng[2]),
      icon |-> this.icon,
      map |-> this.map,
      data |-> entry,
      callback |-> callback ]

\* addMarkersLoop with a slip: an entry already carried by a stored marker is skipped.
RECURSIVE addMarkersLoopDedup(_, _, _, _, _, _)
addMarkersLoopDedup(heap, list, this, coordsArray, callback, i) ==
    IF i > Len(coordsArray)
    THEN [heap |-> heap, list |-> list]
    ELSE IF \E k \in 1..Len(list) : heap[list[k]].data = coordsArray[i]
    THEN addMarkersLoopDedup(heap, list, this, coordsArray, callback, i + 1)
    ELSE addMarkersLoopDedup(Append(heap, NewMarker(this, coordsArray[i], callback)),
                             Append(list, Len(heap) + 1),
                             this, coordsArray, callback, i + 1)

\* The loop of addMarkers from index i on: [heap, list] after it.
RECURSIVE addMarkersLoop(_, _, _, _, _, _)
addMarkersLoop(heap, list, this, coordsArray, callback, i) ==
    IF i > Len(coordsArray)
    THEN [heap |-> heap, list |-> list]
    ELSE addMarkersLoop(Append(heap, NewMarker(this, coordsArray[i], callback)),
                        Append(list, Len(heap) + 1),
                        this, coordsArray, callback, i + 1)

\* The loop of setAllMap from index i on: the marker heap after it.
RECURSIVE setAllMapLoop(_, _, _, _)
setAllMapLoop(heap, list, _map, i) ==
    IF i > Len(list)
    THEN heap
    ELSE setAllMapLoop([heap EXCEPT ![list[i]].map = _map], list, _map, i + 1)

\* setAllMap(_map) on facade fields `this`: the marker heap afterwards.
setAllMapOn(heap, this, _map) == setAllMapLoop(heap, this.markers, _map, 1)

\* clearMarkers: this.setAllMap(null).
clearMarkersOn(heap, this) == setAllMapOn(heap, this, 0)

\* showMarkers with a slip: the loop starts at the second marker.
showMarkersOnSkipsFirst(heap, this) == setAllMapLoop(heap, this.markers, this.map, 2)

\* showMarkers: this.setAllMap(this.map).
showMarkersOn(heap, this) == setAllMapOn(heap, this, this.map)

\* deleteMarkers with a slip: the assignment is missing, the list is kept.
deleteMarkersListKept(list) == list

\* deleteMarkers with a slip: the list is cut to its first handle, not emptied.
deleteMarkersListCut(list) == IF list = <<>> THEN <<>> ELSE <<list[1]>>

\* this.markers after deleteMarkers' assignment `this.markers = []`.
deleteMarkersList(list) == <<>>


\* --------------------------------------------------------------- callbacks

\* registerMapZoomEvent with a slip: it pushes to the click list.
registerMapZoomEventOnClickList(this, callback) ==
    IF typeof(callback) = "function"
    THEN [this EXCEPT !.mapClickCallbacks = Append(@, callback)]
    ELSE this

\* registerMapZoomEvent on the fields of one facade.
registerMapZoomEventOn(this, callback) ==
    IF typeof(callback) = "function"
    THEN [this EXCEPT !.mapZoomCallbacks = Append(@, callback)]
    ELSE this

\* registerMapClickEvent on the fields of one facade.
registerMapClickEventOn(this, callback) ==
    IF typeof(callback) = "function"
    THEN [this EXCEPT !.mapClickCallbacks = Append(@, callback)]
    ELSE this

\* What calling the function value fn does to the facades: h registers f1 on
\* facade 1's click list, f1 and f2 change nothing.
Invoke(F, fn) ==
    IF fn = h THEN [F EXCEPT ![1] = registerMapClickEventOn(@, f1)] ELSE F

\* The loop of onMapInteract with a slip: the bound is this[arrayName].length,
\* read again at every iteration, not j.
RECURSIVE onMapInteractLoopLive(_, _, _, _, _, _, _)
onMapInteractLoopLive(F, this, arrayName, args, i, j, calls) ==
    IF i > Len(F[this][arrayName])
    THEN [facade |-> F, calls |-> calls]
    ELSE onMapInteractLoopLive(Invoke(F, F[this][arrayName][i]), this, arrayName, args,
                               i + 1, j,
                               Append(calls, [fn |-> F[this][arrayName][i], arg |-> args]))

\* The loop of onMapInteract from index i on, j being the length read before
\* the loop: the facades after it and the calls made, in order.
RECURSIVE onMapInteractLoop(_, _, _, _, _, _, _)
onMapInteractLoop(F, this, arrayName, args, i, j, calls) ==
    IF i > j
    THEN [facade |-> F, calls |-> calls]
    ELSE onMapInteractLoop(Invoke(F, F[this][arrayName][i]), this, arrayName, args,
                           i + 1, j,
                           Append(calls, [fn |-> F[this][arrayName][i], arg |-> args]))

\* onMapInteract with a slip: the loop starts at the second callback.
onMapInteractOnSkipsFirst(F, this, arrayName, args) ==
    onMapInteractLoop(F, this, arrayName, args, 2, Len(F[this][arrayName]), <<>>)

\* this.onMapInteract(arrayName, args) on the facades F.
onMapInteractOn(F, this, arrayName, args) ==
    onMapInteractLoop(F, this, arrayName, args, 1, Len(F[this][arrayName]), <<>>)

\* Callbacks registered so far, over all lists.
RECURSIVE RegCountOf(_, _)
RegCountOf(F, S) ==
    IF S = {} THEN 0
    ELSE LET i == CHOOSE x \in S : TRUE
         IN Len(F[i].mapClickCallbacks) + Len(F[i].mapZoomCallbacks) + RegCountOf(F, S \ {i})

RegCount(F) == RegCountOf(F, DOMAIN F)

\* ------------------------------------------------------- facade operations

Call(op, i) == [NoCall EXCEPT !.op = op, !.inst = i, !.ret = Returned(This(i))]

setCenter(i, latLng) ==
    /\ IF facade[i].map = 0
       THEN /\ last' = [Call("setCenter", i) EXCEPT !.ret = Thrown(TypeError)]
            /\ UNCHANGED widgets
       ELSE /\ widgets' = [widgets EXCEPT ![facade[i].map].center = LatLng(latLng[1], latLng[2])]
            /\ last' = Call("setCenter", i)
    /\ UNCHANGED <<facade, markerObjs, sinceDelete, loadVars>>

\* setZoom with a slip: the guard is !isNaN(zoom), which lets a numeric string through.
setZoomCoerces(i, zoom) ==
    /\ IF typeof(zoom) \in {"number", "string"}
       THEN IF facade[i].map = 0
            THEN /\ last' = [Call("setZoom", i) EXCEPT !.arg = zoom, !.ret = Thrown(TypeError)]
                 /\ UNCHANGED widgets
            ELSE /\ widgets' = [widgets EXCEPT ![facade[i].map].zoom = zoom.v]
                 /\ last' = [Call("setZoom", i) EXCEPT !.arg = zoom]
       ELSE /\ last' = [Call("setZoom", i) EXCEPT !.arg = zoom]
            /\ UNCHANGED widgets
    /\ UNCHANGED <<facade, markerObjs, sinceDelete, loadVars>>

\* (The widget's own zoom_changed dispatch is the listener action MapZoomListener.)
setZoom(i, zoom) ==
    /\ IF typeof(zoom) = "number"
       THEN IF facade[i].map = 0
            THEN /\ last' = [Call("setZoom", i) EXCEPT !.arg = zoom, !.ret = Thrown(TypeError)]
                 /\ UNCHANGED widgets
            ELSE /\ widgets' = [widgets EXCEPT ![facade[i].map].zoom = zoom.v]
                 /\ last' = [Call("setZoom", i) EXCEPT !.arg = zoom]
       ELSE /\ last' = [Call("setZoom", i) EXCEPT !.arg = zoom]
            /\ UNCHANGED widgets
    /\ UNCHANGED <<facade, markerObjs, sinceDelete, loadVars>>

\* addMarkers with a slip: the marker list lives on the prototype, so the new
\* handles show in every instance's list.
addMarkersShared(i, coordsArray, callback) ==
    LET r == addMarkersLoop(markerObjs, facade[i].markers, facade[i], coordsArray, callback, 1)
    IN /\ Len(markerObjs) + Len(coordsArray) <= MaxMarkers
       /\ markerObjs' = r.heap
       /\ facade' = [j \in DOMAIN facade |-> [facade[j] EXCEPT !.markers = r.list]]
       /\ sinceDelete' = [sinceDelete EXCEPT ![i] = @ \o coordsArray]
       /\ last' = [Call("addMarkers", i) EXCEPT !.entries = coordsArray, !.arg = callback]
       /\ UNCHANGED <<widgets, loadVars>>

addMarkers(i, coordsArray, callback) ==
    LET r == addMarkersLoop(markerObjs, facade[i].markers, facade[i], coordsArray, callback, 1)
    IN /\ Len(markerObjs) + Len(coordsArray) <= MaxMarkers
       /\ markerObjs' = r.heap
       /\ facade' = [facade EXCEPT ![i].markers = r.list]
       /\ sinceDelete' = [sinceDelete EXCEPT ![i] = @ \o coordsArray]
       /\ last' = [Call("addMarkers", i) EXCEPT !.entries = coordsArray, !.arg = callback]
       /\ UNCHANGED <<widgets, loadVars>>

setAllMap(i, _map) ==
    /\ markerObjs' = setAllMapOn(markerObjs, facade[i], _map)
    /\ last' = [Call("setAllMap", i) EXCEPT !.target = _map]
    /\ UNCHANGED <<facade, widgets, sinceDelete, loadVars>>

\* clearMarkers with a slip: it also drops the handles, as deleteMarkers does.
clearMarkersDrops(i) ==
    /\ markerObjs' = clearMarkersOn(markerObjs, facade[i])
    /\ facade' = [facade EXCEPT ![i].markers = <<>>]
    /\ last' = Call("clearMarkers", i)
    /\ UNCHANGED <<widgets, sinceDelete, loadVars>>

clearMarkers(i) ==
    /\ markerObjs' = clearMarkersOn(markerObjs, facade[i])
    /\ last' = Call("clearMarkers", i)
    /\ UNCHANGED <<facade, widgets, sinceDelete, loadVars>>

showMarkers(i) ==
    /\ markerObjs' = showMarkersOn(markerObjs, facade[i])
    /\ last' = Call("showMarkers", i)
    /\ UNCHANGED <<facade, widgets, sinceDelete, loadVars>>

\* deleteMarkers with a slip: the list is emptied without hiding the markers first.
deleteMarkersLeavesShown(i) ==
    /\ facade' = [facade EXCEPT ![i].markers = deleteMarkersList(@)]
    /\ sinceDelete' = [sinceDelete EXCEPT ![i] = <<>>]
    /\ last' = Call("deleteMarkers", i)
    /\ UNCHANGED <<markerObjs, widgets, loadVars>>

deleteMarkers(i) ==
    /\ markerObjs' = clearMarkersOn(markerObjs, facade[i])
    /\ facade' = [facade EXCEPT ![i].markers = deleteMarkersList(@)]
    /\ sinceDelete' = [sinceDelete EXCEPT ![i] = <<>>]
    /\ last' = Call("deleteMarkers", i)
    /\ UNCHANGED <<widgets, loadVars>>

registerMapZoomEvent(i, callback) ==
    /\ facade' = [facade EXCEPT ![i] = registerMapZoomEventOn(@, callback)]
    /\ RegCount(facade') <= MaxRegs
    /\ last' = [Call("registerMapZoomEvent", i) EXCEPT !.arg = callback]
    /\ UNCHANGED <<widgets, markerObjs, sinceDelete, loadVars>>

registerMapClickEvent(i, callback) ==
    /\ facade' = [facade EXCEPT ![i] = registerMapClickEventOn(@, callback)]
    /\ RegCount(facade') <= MaxRegs
    /\ last' = [Call("registerMapClickEvent", i) EXCEPT !.arg = callback]
    /\ UNCHANGED <<widgets, markerObjs, sinceDelete, loadVars>>

onMapInteract(i, arrayName, args) ==
    LET r == onMapInteractOn(facade, i, arrayName, args)
    IN /\ RegCount(r.facade) <= MaxRegs
       /\ facade' = r.facade
       /\ last' = [Call("onMapInteract", i) EXCEPT !.name = arrayName, !.arg = args,
                                                    !.calls = r.calls]
       /\ UNCHANGED <<widgets, markerObjs, sinceDelete, loadVars>>

\* The value of this.getZoom() on facade i, given the widgets W.
getZoomOf(F, W, i) == number(W[F[i].map].zoom)

getZoom(i) ==
    /\ last' = IF facade[i].map = 0
               THEN [Call("getZoom", i) EXCEPT !.ret = Thrown(TypeError)]
               ELSE [Call("getZoom", i) EXCEPT !.ret = Returned(getZoomOf(facade, widgets, i))]
    /\ UNCHANGED <<facadeVars, loadVars>>

\* init with a slip: it starts the callback lists afresh.
initResetsCallbacks(i) ==
    /\ Len(widgets) < MaxWidgets
    /\ widgets' = Append(widgets, [owner |-> i, elem |-> facade[i].elem,
                                   zoom |-> facade[i].mapOptions.zoom,
                                   center |-> facade[i].mapOptions.center])
    /\ facade' = [facade EXCEPT ![i].map = Len(widgets) + 1,
                                ![i].mapClickCallbacks = <<>>,
                                ![i].mapZoomCallbacks = <<>>]
    /\ last' = Call("init", i)
    /\ UNCHANGED <<markerObjs, sinceDelete, loadVars>>

\* init with a slip: it shows the stored markers on the new widget.
initShowsMarkers(i) ==
    /\ Len(widgets) < MaxWidgets
    /\ widgets' = Append(widgets, [owner |-> i, elem |-> facade[i].elem,
                                   zoom |-> facade[i].mapOptions.zoom,
                                   center |-> facade[i].mapOptions.center])
    /\ facade' = [facade EXCEPT ![i].map = Len(widgets) + 1]
    /\ markerObjs' = setAllMapOn(markerObjs, facade[i], Len(widgets) + 1)
    /\ last' = Call("init", i)
    /\ UNCHANGED <<sinceDelete, loadVars>>

\* init with a slip: `return this` is missing.
initReturnsNothing(i) ==
    /\ Len(widgets) < MaxWidgets
    /\ widgets' = Append(widgets, [owner |-> i, elem |-> facade[i].elem,
                                   zoom |-> facade[i].mapOptions.zoom,
                                   center |-> facade[i].mapOptions.center])
    /\ facade' = [facade EXCEPT ![i].map = Len(widgets) + 1]
    /\ last' = [Call("init", i) EXCEPT !.ret = Returned(undefined)]
    /\ UNCHANGED <<markerObjs, sinceDelete, loadVars>>

init(i) ==
    /\ Len(widgets) < MaxWidgets
    /\ widgets' = Append(widgets, [owner |-> i, elem |-> facade[i].elem,
                                   zoom |-> facade[i].mapOptions.zoom,
                                   center |-> facade[i].mapOptions.center])
    /\ facade' = [facade EXCEPT ![i].map = Len(widgets) + 1]
    /\ last' = Call("init", i)
    /\ UNCHANGED <<markerObjs, sinceDelete, loadVars>>

\* ------------------------------------------------------------ native events

\* The 'click' listener with a slip: it dispatches the zoom list.
MapClickListenerZoomList(w, event) ==
    LET r == onMapInteractOn(facade, widgets[w].owner, "mapZoomCallbacks", event)
    IN /\ RegCount(r.facade) <= MaxRegs
       /\ facade' = r.facade
       /\ last' = [NoCall EXCEPT !.op = "click", !.inst = widgets[w].owner,
                                 !.name = "mapClickCallbacks",
                                 !.arg = event, !.calls = r.calls]
       /\ UNCHANGED <<widgets, markerObjs, sinceDelete, loadVars>>

\* The 'click' listener init added to widget w.
MapClickListener(w, event) ==
    LET r == onMapInteractOn(facade, widgets[w].owner, "mapClickCallbacks", event)
    IN /\ RegCount(r.facade) <= MaxRegs
       /\ facade' = r.facade
       /\ last' = [NoCall EXCEPT !.op = "click", !.inst = widgets[w].owner,
                                 !.name = "mapClickCallbacks",
                                 !.arg = event, !.calls = r.calls]
       /\ UNCHANGED <<widgets, markerObjs, sinceDelete, loadVars>>

\* Widget w's zoom becomes z (the user zooms), then the 'zoom_changed' listener
\* init added to w runs.
MapZoomListener(w, z) ==
    LET W == [widgets EXCEPT ![w].zoom = z]
        r == onMapInteractOn(facade, widgets[w].owner, "mapZoomCallbacks",
                             getZoomOf(facade, W, widgets[w].owner))
    IN /\ widgets[w].zoom # z
       /\ RegCount(r.facade) <= MaxRegs
       /\ widgets' = W
       /\ facade' = r.facade
       /\ last' = [NoCall EXCEPT !.op = "zoom_changed", !.inst = widgets[w].owner,
                                 !.name = "mapZoomCallbacks",
                                 !.arg = getZoomOf(facade, W, widgets[w].owner),
                                 !.calls = r.calls]
       /\ UNCHANGED <<markerObjs, sinceDelete, loadVars>>

\* The 'click' listener assignMarkerEvent added to marker m (a marker on display).
MarkerClickListener(m) ==
    /\ markerObjs[m].map # 0
    /\ last' = [NoCall EXCEPT !.op = "marker_click", !.target = m,
                              !.clicks = IF typeof(markerObjs[m].callback) = "function"
                                         THEN <<[fn |-> markerObjs[m].callback,
                                                 data |-> markerObjs[m].data]>>
                                         ELSE <<>>]
    /\ UNCHANGED <<facadeVars, loadVars>>

\* ------------------------------------------------------ facade specification

\* The promise has resolved and consumer c1 has constructed gmap1 = new Map(div1, {}).
Init ==
    /\ facade = [i \in {1} |-> Map(CtorArgs(i).elem, CtorArgs(i).options)]
    /\ widgets = <<>>
    /\ markerObjs = <<>>
    /\ sinceDelete = [i \in {1} |-> <<>>]
    /\ last = NoCall
    /\ google = "ok"
    /\ promise = [state |-> "resolved", value |-> "Map", doneList |-> <<>>]
    /\ subscribed = {"c1"}
    /\ received = [c \in Consumers |-> IF c = "c1" THEN <<"Map">> ELSE <<>>]
    /\ loadError = "none"

\* Objects created so far: widgets, markers and callback registrations.
Objects(F, W, M) == Len(W) + Len(M) + RegCount(F)

\* The step stays within MaxObjects objects.
Within == Objects(facade', widgets', markerObjs') <= MaxObjects

\* Every operation and event, while at most MaxObjects objects have been created.
Next ==
    \/ \E i \in Instances, latLng \in LatLngArgs : setCenter(i, latLng)
    \/ \E i \in Instances, zoom \in ZoomArgs : setZoom(i, zoom)
    \/ \E i \in Instances, coordsArray \in CoordsArrays, callback \in MarkerCallbackArgs :
          addMarkers(i, coordsArray, callback) /\ Within
    \/ \E i \in Instances, w \in 0..Len(widgets) : setAllMap(i, w)
    \/ \E i \in Instances : clearMarkers(i)
    \/ \E i \in Instances : showMarkers(i)
    \/ \E i \in Instances : deleteMarkers(i)
    \/ \E i \in Instances, callback \in CallbackArgs :
          registerMapZoomEvent(i, callback) /\ Within
    \/ \E i \in Instances, callback \in CallbackArgs :
          registerMapClickEvent(i, callback) /\ Within
    \/ \E i \in Instances, arrayName \in ArrayNames, args \in Payloads :
          onMapInteract(i, arrayName, args) /\ Within
    \/ \E i \in Instances : getZoom(i)
    \/ \E i \in Instances : init(i) /\ Within
    \/ \E w \in 1..Len(widgets), event \in ClickEvents : MapClickListener(w, event) /\ Within
    \/ \E w \in 1..Len(widgets), z \in ZoomLevels : MapZoomListener(w, z) /\ Within
    \/ \E m \in 1..Len(markerObjs) : MarkerClickListener(m)

Spec == Init /\ [][Next]_vars

\* The marker operations alone.
NextMarkers ==
    \/ \E i \in Instances, coordsArray \in CoordsArrays, callback \in MarkerCallbackArgs :
          addMarkers(i, coordsArray, callback)
    \/ \E i \in Instances, w \in 0..Len(widgets) : setAllMap(i, w)
    \/ \E i \in Instances : clearMarkers(i)
    \/ \E i \in Instances : showMarkers(i)
    \/ \E i \in Instances : deleteMarkers(i)
    \/ \E i \in Instances : init(i)
    \/ \E m \in 1..Len(markerObjs) : MarkerClickListener(m)

MarkerSpec == Init /\ [][NextMarkers]_vars

\* The widget and callback operations alone.
NextCallbacks ==
    \/ \E i \in Instances, zoom \in ZoomArgs : setZoom(i, zoom)
    \/ \E i \in Instances, callback \in CallbackArgs : registerMapZoomEvent(i, callback)
    \/ \E i \in Instances, callback \in CallbackArgs : registerMapClickEvent(i, callback)
    \/ \E i \in Instances, arrayName \in ArrayNames, args \in Payloads :
          onMapInteract(i, arrayName, args)
    \/ \E i \in Instances : getZoom(i)
    \/ \E i \in Instances : init(i)
    \/ \E w \in 1..Len(widgets), event \in ClickEvents : MapClickListener(w, event)
    \/ \E w \in 1..Len(widgets), z \in ZoomLevels : MapZoomListener(w, z)

CallbackSpec == Init /\ [][NextCallbacks]_vars

\* Facade i has not been initialised: this.map is still null.
BeforeInit(i) == facade[i].map = 0

\* The consumer registers its callbacks first and calls init afterwards; then
\* the widget's events arrive.
NextRegisterThenInit ==
    \/ \E i \in Instances, callback \in CallbackArgs :
          BeforeInit(i) /\ registerMapZoomEvent(i, callback)
    \/ \E i \in Instances, callback \in CallbackArgs :
          BeforeInit(i) /\ registerMapClickEvent(i, callback)
    \/ \E i \in Instances : init(i)
    \/ \E w \in 1..Len(widgets), event \in ClickEvents : MapClickListener(w, event)
    \/ \E w \in 1..Len(widgets), z \in ZoomLevels : MapZoomListener(w, z)

RegisterThenInitSpec == Init /\ [][NextRegisterThenInit]_vars

\* Consumers c1 and c2 have each constructed a facade from the resolved constructor:
\* gmap1 = new Map(div1, {}) and gmap2 = new Map(div2, {icon: 'custom.png'}).
InitTwo ==
    /\ facade = [i \in {1, 2} |-> Map(CtorArgs(i).elem, CtorArgs(i).options)]
    /\ widgets = <<>>
    /\ markerObjs = <<>>
    /\ sinceDelete = [i \in {1, 2} |-> <<>>]
    /\ last = NoCall
    /\ google = "ok"
    /\ promise = [state |-> "resolved", value |-> "Map", doneList |-> <<>>]
    /\ subscribed = {"c1", "c2"}
    /\ received = [c \in Consumers |-> IF c \in {"c1", "c2"} THEN <<"Map">> ELSE <<>>]
    /\ loadError = "none"

\* The operations that write a facade's fields or its markers, on either facade,
\* while at most MaxObjects objects have been created.
NextTwo ==
    \/ \E i \in Instances, coordsArray \in CoordsArrays, callback \in MarkerCallbackArgs :
          addMarkers(i, coordsArray, callback) /\ Within
    \/ \E i \in Instances : clearMarkers(i)
    \/ \E i \in Instances : showMarkers(i)
    \/ \E i \in Instances : deleteMarkers(i)
    \/ \E i \in Instances, callback \in MarkerCallbackArgs :
          registerMapZoomEvent(i, callback) /\ Within
    \/ \E i \in Instances, callback \in MarkerCallbackArgs :
          registerMapClickEvent(i, callback) /\ Within
    \/ \E i \in Instances : init(i) /\ Within

TwoSpec == InitTwo /\ [][NextTwo]_vars


\* ------------------------------------------------------- loading the module

\* What the global `google` may be when the maps script calls back: not declared,
\* undefined, a falsy primitive, an object without .maps, the loaded library.
GoogleStates == {"undeclared", "undefined", "zero", "noMaps", "ok"}

\* !google, for a declared google.
Falsy(g) == g \in {"undefined", "zero"}

\* The load check of the require callback, `if (!google && !google.maps) throw`,
\* evaluated left to right: "pass" or the exception raised.
LoadCheck(g) ==
    IF g = "undeclared" THEN "ReferenceError"
    ELSE IF ~Falsy(g) THEN "pass"
    ELSE IF g = "undefined" THEN "TypeError"
    ELSE "Error: Maps library could not be loaded!"

\* The elements of a sequence.
Range(q) == {q[k] : k \in 1..Len(q)}

\* deferred.resolve(value): the deferred afterwards (a settled deferred ignores it).
resolve(p, value) ==
    IF p.state = "pending"
    THEN [state |-> "resolved", value |-> value, doneList |-> <<>>]
    ELSE p

\* deferred.resolve(value): the done-callbacks' calls afterwards (each callback of
\* the done list is called once with the value, if the deferred was pending).
resolveCalls(p, value, rcv) ==
    IF p.state = "pending"
    THEN [c \in DOMAIN rcv |-> IF c \in Range(p.doneList) THEN Append(rcv[c], value) ELSE rcv[c]]
    ELSE rcv

\* The resolution with a slip: $promise.resolve() without the constructor.
ResolvedNothing == "undefined"

\* What the require callback resolves the promise with.
ResolvedValue == "Map"

\* The callback of require(['async!...maps/api/js...!callback'], function (gmaps) {...}),
\* run when the maps script calls back, with the global `google` being g.
RequireCallback(g) ==
    /\ google = "loading"
    /\ google' = g
    /\ IF LoadCheck(g) = "pass"
       THEN /\ promise' = resolve(promise, ResolvedValue)
            /\ received' = resolveCalls(promise, ResolvedValue, received)
            /\ loadError' = "none"
       ELSE /\ loadError' = LoadCheck(g)
            /\ UNCHANGED <<promise, received>>
    /\ last' = [NoCall EXCEPT !.op = "require"]
    /\ UNCHANGED <<facadeVars, subscribed>>

\* The maps script fails to load: the async! plugin never calls back.
ScriptError ==
    /\ google = "loading"
    /\ google' = "scriptError"
    /\ last' = [NoCall EXCEPT !.op = "scriptError"]
    /\ UNCHANGED <<facadeVars, promise, subscribed, received, loadError>>

\* Consumer c calls $Gmaps.done(fn): fn runs at once if the deferred is resolved, and
\* joins the done list if it is pending.
done(c) ==
    /\ c \notin subscribed
    /\ subscribed' = subscribed \cup {c}
    /\ IF promise.state = "resolved"
       THEN /\ received' = [received EXCEPT ![c] = Append(@, promise.value)]
            /\ UNCHANGED promise
       ELSE /\ promise' = [promise EXCEPT !.doneList = Append(@, c)]
            /\ UNCHANGED received
    /\ last' = [NoCall EXCEPT !.op = "done"]
    /\ UNCHANGED <<facadeVars, google, loadError>>

\* The module has just been defined: the deferred is pending, the script is loading.
LoadInit ==
    /\ facade = << >>
    /\ widgets = <<>>
    /\ markerObjs = <<>>
    /\ sinceDelete = << >>
    /\ last = NoCall
    /\ google = "loading"
    /\ promise = [state |-> "pending", value |-> "none", doneList |-> <<>>]
    /\ subscribed = {}
    /\ received = [c \in Consumers |-> <<>>]
    /\ loadError = "none"

LoadNext ==
    \/ \E g \in GoogleStates : RequireCallback(g)
    \/ ScriptError
    \/ \E c \in Consumers : done(c)

LoadSpec == LoadInit /\ [][LoadNext]_vars


\* ------------------------------------------------------------------ claims

\* The payloads of facade i's stored markers, in list order.
MarkerData(i) ==
    [k \in 1..Len(facade[i].markers) |-> markerObjs[facade[i].markers[k]].data]

\* C1: an addMarkers call with N entries makes the marker list N longer; the old
\* handles keep their places, the N new handles follow in entry order, each a
\* new marker object carrying its entry (and so the entry's payload); no marker
\* that existed before the call changes, and an entry equal to one already
\* stored still gets its own marker.
C1_AddMarkersAppends ==
    [][last'.op = "addMarkers" =>
        LET i == last'.inst
            N == Len(last'.entries)
            old == facade[i].markers
            new == facade'[i].markers
        IN /\ Len(new) = Len(old) + N
           /\ SubSeq(new, 1, Len(old)) = old
           /\ \A k \in 1..N :
                /\ new[Len(old) + k] = Len(markerObjs) + k
                /\ markerObjs'[new[Len(old) + k]].data = last'.entries[k]
                /\ markerObjs'[new[Len(old) + k]].data.data = last'.entries[k].data
           /\ Len(markerObjs') = Len(markerObjs) + N
           /\ \A m \in 1..Len(markerObjs) : markerObjs'[m] = markerObjs[m]
    ]_vars

\* C1 witness: a second addMarkers call, with two entries, has run on a list that
\* already held a marker of the first entry: three markers, two with the same payload.
C1_Witness ==
    /\ last.op = "addMarkers"
    /\ last.entries = <<entryA, entryB>>
    /\ MarkerData(1) = <<entryA, entryA, entryB>>

\* C2: the marker list holds exactly the markers of the addMarkers calls made
\* since the last deleteMarkers (since construction if none), in the order added.
C2_ListIsAddedSinceDelete ==
    \A i \in Instances :
        /\ MarkerData(i) = sinceDelete[i]
        /\ \A k, l \in 1..Len(facade[i].markers) :
              k < l => facade[i].markers[k] < facade[i].markers[l]

\* C2 witness: markers were added, deleted, and added again, then hidden: the list
\* holds the one marker added after the delete.
C2_Witness ==
    /\ last.op = "clearMarkers"
    /\ Len(markerObjs) = 3
    /\ MarkerData(1) = <<entryA>>
    /\ facade[1].markers = <<3>>

\* C3: after deleteMarkers the marker list is empty, whatever came before.
C3_DeleteEmptiesList ==
    last.op = "deleteMarkers" => Len(facade[last.inst].markers) = 0

\* C3 witness: deleteMarkers has run on an initialised facade that had created
\* two markers.
C3_Witness ==
    /\ last.op = "deleteMarkers"
    /\ facade[1].map # 0
    /\ Len(markerObjs) = 2
    /\ facade[1].markers = <<>>

\* C3 witness before init: deleteMarkers has run on a facade never initialised.
C3_WitnessNoInit ==
    /\ last.op = "deleteMarkers"
    /\ facade[1].map = 0
    /\ Len(markerObjs) = 2

\* C4: clearMarkers leaves the facade's fields, the marker list among them, as
\* they were; every stored marker's target becomes none, and nothing else of any
\* marker changes.
C4_ClearKeepsList ==
    [][last'.op = "clearMarkers" =>
        LET i == last'.inst
        IN /\ facade' = facade
           /\ Len(markerObjs') = Len(markerObjs)
           /\ \A m \in 1..Len(markerObjs) :
                markerObjs'[m] = IF m \in Range(facade[i].markers)
                                 THEN [markerObjs[m] EXCEPT !.map = 0]
                                 ELSE markerObjs[m]
    ]_vars

\* C4 witness: clearMarkers has run on an initialised facade holding two markers,
\* which are now hidden.
C4_Witness ==
    /\ last.op = "clearMarkers"
    /\ facade[1].map # 0
    /\ Len(facade[1].markers) = 2
    /\ \A k \in 1..2 : markerObjs[facade[1].markers[k]].map = 0


\* C5: one onMapInteract call on a callback list invokes each callback the list
\* held when the call started exactly once, in list (registration) order, each
\* with the call's payload; for the click list and for the zoom list alike.
C5_InteractCallsAllInOrder ==
    [][last'.op = "onMapInteract" =>
        LET list == facade[last'.inst][last'.name]
        IN last'.calls = [k \in 1..Len(list) |-> [fn |-> list[k], arg |-> last'.arg]]
    ]_vars

\* C5 witness: f2 then f1 were registered for clicks, and onMapInteract on the
\* click list has called f2 then f1 with the payload.
C5_Witness ==
    /\ last.op = "onMapInteract"
    /\ last.name = "mapClickCallbacks"
    /\ last.calls = <<[fn |-> f2, arg |-> JS("object", 42)], [fn |-> f1, arg |-> JS("object", 42)]>>

\* C6: setZoom with an argument that is not a number changes nothing (widget
\* zoom, marker list, callback lists, markers) and returns normally; with a
\* number, on an initialised facade, the widget's zoom becomes that number.
C6_SetZoomOnlyNumeric ==
    [][last'.op = "setZoom" =>
        LET i == last'.inst
        IN IF typeof(last'.arg) # "number"
           THEN /\ facade' = facade
                /\ widgets' = widgets
                /\ markerObjs' = markerObjs
                /\ last'.ret = Returned(This(i))
           ELSE facade[i].map # 0 =>
                /\ widgets'[facade[i].map].zoom = last'.arg.v
                /\ last'.ret = Returned(This(i))
    ]_vars

\* C6 witness: setZoom('7') has run on an initialised facade with a marker and a
\* click callback; the widget's zoom is still 4.
C6_Witness ==
    /\ last.op = "setZoom"
    /\ last.arg = string7
    /\ last.ret = Returned(This(1))
    /\ facade[1].map # 0
    /\ widgets[facade[1].map].zoom = 4
    /\ Len(facade[1].markers) = 1
    /\ Len(facade[1].mapClickCallbacks) = 1

\* C7: registerMapClickEvent appends its argument to the click list if it is a
\* function and changes nothing otherwise; registerMapZoomEvent does the same on
\* the zoom list; neither touches the other list or any other field, and both
\* return normally.
C7_RegisterAppendsIffCallable ==
    [][/\ last'.op = "registerMapClickEvent" =>
            /\ facade'[last'.inst] =
                  IF typeof(last'.arg) = "function"
                  THEN [facade[last'.inst] EXCEPT !.mapClickCallbacks = Append(@, last'.arg)]
                  ELSE facade[last'.inst]
            /\ last'.ret = Returned(This(last'.inst))
       /\ last'.op = "registerMapZoomEvent" =>
            /\ facade'[last'.inst] =
                  IF typeof(last'.arg) = "function"
                  THEN [facade[last'.inst] EXCEPT !.mapZoomCallbacks = Append(@, last'.arg)]
                  ELSE facade[last'.inst]
            /\ last'.ret = Returned(This(last'.inst))
    ]_vars

\* C7 witness: a non-callable argument was passed to registerMapClickEvent while
\* both lists held a callback; both lists are as they were.
C7_Witness ==
    /\ last.op = "registerMapClickEvent"
    /\ last.arg = plainObject
    /\ facade[1].mapClickCallbacks = <<f1>>
    /\ facade[1].mapZoomCallbacks = <<f2>>

\* C7 witness, callable case: f2 was appended after f1 on the zoom list.
C7_WitnessAppend ==
    /\ last.op = "registerMapZoomEvent"
    /\ last.arg = f2
    /\ facade[1].mapZoomCallbacks = <<f1, f2>>
    /\ facade[1].mapClickCallbacks = <<f1>>


\* C8: the promise is resolved only once the maps script has called back, at
\* once when the library is there, and with the Map constructor; every consumer that called
\* done, before or after the resolution, has then been handed that constructor
\* exactly once, and nobody is handed anything while it is pending; once
\* resolved the promise never changes and no consumer is called a second time.
C8_Settled ==
    /\ promise.state \in {"pending", "resolved"}
    /\ promise.state = "resolved" => google \in GoogleStates
    /\ google = "ok" => promise.state = "resolved"
    /\ promise.state = "resolved" => promise.value = "Map"
    /\ \A c \in Consumers :
          received[c] = IF promise.state = "resolved" /\ c \in subscribed
                        THEN <<"Map">>
                        ELSE <<>>

\* C8: C8_Settled holds in every state, and a resolved promise never changes
\* again, nor is a consumer that holds the constructor called a second time.
C8_ResolvesOnceForAll ==
    /\ []C8_Settled
    /\ [][promise.state = "resolved" =>
            /\ promise' = promise
            /\ \A c \in Consumers : received[c] # <<>> => received'[c] = received[c]
       ]_vars

\* C8 witness: c2 subscribed before the resolution, c1 after it, c3 not at all;
\* c1 and c2 each hold the constructor once.
C8_Witness ==
    /\ promise.state = "resolved"
    /\ google = "ok"
    /\ last.op = "done"
    /\ subscribed = {"c1", "c2"}
    /\ received = [c \in Consumers |-> IF c = "c3" THEN <<>> ELSE <<"Map">>]

\* The library has failed to load: the script never called back, or the global
\* google lacks the maps library when it does.
LoadFailed == google \in {"scriptError", "undeclared", "undefined", "zero", "noMaps"}

\* C9: when the library has failed to load, the promise is not resolved with a
\* constructor, and every consumer waiting on it has been told of the failure
\* exactly once.
C9_FailureSurfaced ==
    LoadFailed =>
        /\ promise.state # "resolved"
        /\ \A c \in subscribed : received[c] = <<"error">>

\* The operations of the facade.
FacadeOps ==
    { "setCenter", "setZoom", "addMarkers", "setAllMap", "clearMarkers", "showMarkers",
      "deleteMarkers", "registerMapClickEvent", "registerMapZoomEvent", "onMapInteract",
      "getZoom", "init" }

\* C10 as stated: every operation that returns, returns the facade it was called on.
C10_EveryOperationReturnsThis ==
    (last.op \in FacadeOps /\ last.ret.k = "return") => last.ret.v = This(last.inst)

\* The call recorded in `last` needs the widget: this.map.<method>(...) is evaluated.
UsesWidget ==
    \/ last.op \in {"setCenter", "getZoom"}
    \/ last.op = "setZoom" /\ typeof(last.arg) = "number"

\* C10, amended: every operation but getZoom returns the facade it was called on,
\* and getZoom returns the widget's zoom level; the operations that use the
\* widget throw a TypeError instead while the facade has no widget (before init).
C10_ReturnsThisExceptGetZoom ==
    last.op \in FacadeOps =>
        IF UsesWidget /\ facade[last.inst].map = 0
        THEN last.ret = Thrown(TypeError)
        ELSE IF last.op = "getZoom"
        THEN last.ret = Returned(number(widgets[facade[last.inst].map].zoom))
        ELSE last.ret = Returned(This(last.inst))

\* C10 witness: getZoom has returned the number 7 on a facade whose zoom was set to 7.
C10_Witness ==
    /\ last.op = "getZoom"
    /\ last.ret = Returned(number(7))


\* C11: a click on a marker created by addMarkers(entries, onClick) calls onClick
\* exactly once, with the payload (the data field) of the entry the marker was
\* created from; if onClick is not callable, nothing is called.
C11_MarkerClickPassesPayload ==
    last.op = "marker_click" =>
        last.clicks = IF typeof(markerObjs[last.target].callback) = "function"
                      THEN <<[fn |-> markerObjs[last.target].callback,
                              data |-> markerObjs[last.target].data.data]>>
                      ELSE <<>>

\* What the code does on a marker click: onClick is called once with the whole
\* entry the marker was created from ({latLng, data}), of which the payload is
\* the data field; a non-callable onClick is not called.
C11_MarkerClickPassesEntry ==
    last.op = "marker_click" =>
        last.clicks = IF typeof(markerObjs[last.target].callback) = "function"
                      THEN <<[fn |-> markerObjs[last.target].callback,
                              data |-> markerObjs[last.target].data]>>
                      ELSE <<>>

\* A marker of the second entry, created with f1 as onClick, has been clicked.
C11_Clicked ==
    /\ last.op = "marker_click"
    /\ markerObjs[last.target].data = entryB
    /\ last.clicks = <<[fn |-> f1, data |-> entryB]>>


\* C12: after deleteMarkers no marker that was in the list before the call is
\* attached to a widget (and nothing else of those markers, and no other
\* marker, has changed).
C12_DeleteHidesAll ==
    [][last'.op = "deleteMarkers" =>
        /\ Len(markerObjs') = Len(markerObjs)
        /\ \A m \in 1..Len(markerObjs) :
              markerObjs'[m] = IF m \in Range(facade[last'.inst].markers)
                               THEN [markerObjs[m] EXCEPT !.map = 0]
                               ELSE markerObjs[m]
    ]_vars

\* C12 witness: two markers were created on an initialised facade (so attached
\* to its widget) and deleteMarkers has run: the list is empty, both are detached.
C12_Witness ==
    /\ last.op = "deleteMarkers"
    /\ facade[1].map # 0
    /\ facade[1].markers = <<>>
    /\ Len(markerObjs) = 2
    /\ Len(widgets) = 1
    /\ \A m \in 1..2 : markerObjs[m].map = 0

\* C13: after showMarkers on an initialised facade every stored marker is
\* attached to the facade's widget (this.map); the marker list and the other
\* fields of the facade are as before, as is everything else of the markers.
C13_ShowAttachesAll ==
    [][(last'.op = "showMarkers" /\ facade[last'.inst].map # 0) =>
        /\ facade' = facade
        /\ Len(markerObjs') = Len(markerObjs)
        /\ \A m \in 1..Len(markerObjs) :
              markerObjs'[m] = IF m \in Range(facade[last'.inst].markers)
                               THEN [markerObjs[m] EXCEPT !.map = facade[last'.inst].map]
                               ELSE markerObjs[m]
    ]_vars

\* C13 witness: showMarkers has run on a facade initialised twice; its two
\* stored markers are attached to the second, live widget.
C13_Witness ==
    /\ last.op = "showMarkers"
    /\ facade[1].map = 2
    /\ Len(facade[1].markers) = 2
    /\ \A k \in 1..2 : markerObjs[facade[1].markers[k]].map = 2


\* C14: on an initialised facade a click event of a widget calls the callbacks
\* of the click list, each with the event, and nothing else; a zoom_changed
\* event calls the callbacks of the zoom list, each with the zoom level the
\* facade's widget has at dispatch time (the new level when the event is the
\* facade's own widget's), and nothing else.
C14_EventsDispatchTheirOwnList ==
    [][/\ last'.op = "click" =>
            LET list == facade[last'.inst].mapClickCallbacks
            IN /\ last'.arg \in ClickEvents
               /\ last'.calls = [k \in 1..Len(list) |-> [fn |-> list[k], arg |-> last'.arg]]
       /\ last'.op = "zoom_changed" =>
            LET list == facade[last'.inst].mapZoomCallbacks
                w == CHOOSE x \in 1..Len(widgets) : widgets'[x] # widgets[x]
                level == number(widgets'[facade[last'.inst].map].zoom)
            IN /\ widgets[w].owner = last'.inst
               /\ last'.calls = [k \in 1..Len(list) |-> [fn |-> list[k], arg |-> level]]
               /\ w = facade[last'.inst].map =>
                     /\ level = number(widgets'[w].zoom)
                     /\ level # number(widgets[w].zoom)
    ]_vars

\* C14 witness: f1 is registered for clicks and f2 for zoom changes; the widget
\* was zoomed to 7 and the zoom_changed event called f2 alone, with 7.
C14_Witness ==
    /\ last.op = "zoom_changed"
    /\ facade[1].mapClickCallbacks = <<f1>>
    /\ facade[1].mapZoomCallbacks = <<f2>>
    /\ last.calls = <<[fn |-> f2, arg |-> number(7)]>>

\* The operations C15 is about (showMarkers with them: it writes markers too).
WritingOps ==
    {"addMarkers", "clearMarkers", "showMarkers", "deleteMarkers",
     "registerMapClickEvent", "registerMapZoomEvent", "init"}

\* C15: an operation on one facade leaves every other facade's fields (marker
\* list, both callback lists, widget reference) as they were, and with them
\* the other facade's markers and widget.
C15_OtherInstancesUntouched ==
    [][last'.op \in WritingOps =>
        \A j \in Instances \ {last'.inst} :
            /\ facade'[j] = facade[j]
            /\ \A m \in Range(facade[j].markers) : markerObjs'[m] = markerObjs[m]
            /\ facade[j].map # 0 => widgets'[facade[j].map] = widgets[facade[j].map]
    ]_vars

\* C15 witness: both facades held a marker, the second is initialised and shows
\* its marker; deleteMarkers has run on the first: the second's list is intact.
C15_Witness ==
    /\ last.op = "deleteMarkers"
    /\ last.inst = 1
    /\ Len(markerObjs) = 2
    /\ facade[1].markers = <<>>
    /\ Len(facade[2].markers) = 1
    /\ facade[2].map # 0
    /\ markerObjs[facade[2].markers[1]].map = facade[2].map

\* C16: when every registerMapClickEvent and registerMapZoomEvent call is made
\* before init, init leaves the two lists as they are, and each later click
\* (zoom_changed) event of the widget calls every callback of the click (zoom)
\* list, in order.
C16_RegisteredBeforeInitInvoked ==
    [][/\ last'.op \in {"registerMapClickEvent", "registerMapZoomEvent"} =>
            facade[last'.inst].map = 0
       /\ last'.op = "init" =>
            /\ facade'[last'.inst].mapClickCallbacks = facade[last'.inst].mapClickCallbacks
            /\ facade'[last'.inst].mapZoomCallbacks = facade[last'.inst].mapZoomCallbacks
       /\ last'.op \in {"click", "zoom_changed"} =>
            LET list == facade[last'.inst][last'.name]
            IN /\ last'.name = IF last'.op = "click" THEN "mapClickCallbacks"
                                                     ELSE "mapZoomCallbacks"
               /\ Len(last'.calls) = Len(list)
               /\ \A k \in 1..Len(list) : last'.calls[k].fn = list[k]
    ]_vars

\* C16 witness: f2 and f1 were registered for clicks before init, f1 for zoom
\* changes; after init a click event has called f2 then f1.
C16_Witness ==
    /\ last.op = "click"
    /\ facade[1].map # 0
    /\ facade[1].mapZoomCallbacks = <<f1>>
    /\ \E e \in ClickEvents : last.calls = <<[fn |-> f2, arg |-> e], [fn |-> f1, arg |-> e]>>

\* p is an initial segment of q.
IsPrefix(p, q) == Len(p) <= Len(q) /\ SubSeq(q, 1, Len(p)) = p

\* C17: a dispatch (an onMapInteract call, or a widget event) calls exactly the
\* callbacks the list held when it started, in order; what the callbacks
\* register meanwhile (h registers f1 for clicks on the first facade) is
\* appended behind them and is not called in this dispatch; being in the list,
\* behind the older callbacks, it is called by every later dispatch.
C17_DispatchUsesListAtStart ==
    [][last'.op \in {"onMapInteract", "click", "zoom_changed"} =>
        LET i == last'.inst
            before == facade[i][last'.name]
            hs == Cardinality({k \in 1..Len(before) : before[k] = h})
        IN /\ Len(last'.calls) = Len(before)
           /\ \A k \in 1..Len(before) : last'.calls[k].fn = before[k]
           /\ IsPrefix(before, facade'[i][last'.name])
           /\ facade'[1].mapClickCallbacks =
                 facade[1].mapClickCallbacks \o [k \in 1..hs |-> f1]
    ]_vars

\* C17 witness: the click list held h and the f1 that h registered in an earlier
\* dispatch; a click event has called h then f1, and the f1 that h registered
\* meanwhile is third in the list, not called.
C17_Witness ==
    /\ last.op = "click"
    /\ Len(last.calls) = 2
    /\ last.calls[1].fn = h
    /\ last.calls[2].fn = f1
    /\ facade[1].mapClickCallbacks = <<h, f1, f1>>

\* C18: addMarkers before init stores markers with no widget (map null); init
\* changes neither the marker list nor any marker; a marker that had no widget
\* gets one only in a showMarkers or setAllMap call, made after init.
C18_MarkersAttachOnlyByShow ==
    [][/\ (last'.op = "addMarkers" /\ facade[last'.inst].map = 0) =>
            /\ Len(facade'[last'.inst].markers) =
                  Len(facade[last'.inst].markers) + Len(last'.entries)
            /\ \A m \in Len(markerObjs) + 1..Len(markerObjs') :
                  /\ m \in Range(facade'[last'.inst].markers)
                  /\ markerObjs'[m].map = 0
       /\ last'.op = "init" =>
            /\ markerObjs' = markerObjs
            /\ facade'[last'.inst].markers = facade[last'.inst].markers
       /\ \A m \in 1..Len(markerObjs) :
            (markerObjs[m].map = 0 /\ markerObjs'[m].map # 0) =>
                /\ last'.op \in {"showMarkers", "setAllMap"}
                /\ m \in Range(facade[last'.inst].markers)
                /\ markerObjs'[m].map \in 1..Len(widgets)
                /\ last'.op = "showMarkers" => markerObjs'[m].map = facade[last'.inst].map
    ]_vars

\* C18 witness: two markers were added before the first init; init has run and
\* they are in the list, still without a widget.
C18_Witness ==
    /\ last.op = "init"
    /\ Len(widgets) = 1
    /\ Len(facade[1].markers) = 2
    /\ \A k \in 1..2 : markerObjs[facade[1].markers[k]].map = 0

====
